---- MODULE Spec2Model ----
(***************************************************************************)
(* A model of the Portland Ordinance API (src/app/main.py): the guard      *)
(* middleware with its rate limiter and API-key check, the rules file and  *)
(* the in-memory RULES, the admin endpoints, the search ranking, the       *)
(* Municode fetch, the feedback log and the suggestions builder.           *)
(*                                                                         *)
(* Conventions.  A Python str is a sequence of one-character strings, so   *)
(* that lower(), "in", strip(), sorted() and the regular expressions are   *)
(* computed, not assumed.  A Python dict is a sequence of [k, v] records   *)
(* in insertion order.  A float weight or score is an integer number of    *)
(* hundredths (0.6 is 60).  A time is an integer number of seconds.        *)
(* A handler is one atomic action: the guard middleware, the route's       *)
(* function and every file it writes.                                      *)
(***************************************************************************)
EXTENDS Integers, Sequences, FiniteSets, TLC

VARIABLES
    API_KEY,        \* main.py:29, "" when the environment does not set it
    ADMIN_TOKEN,    \* main.py:30, "" when the environment does not set it
    RULES,          \* main.py:194, the in-memory rules
    rulesFile,      \* the content of RULES_PATH (main.py:41)
    _calls,         \* main.py:53, address -> admitted timestamps
    now,            \* time.time()
    feedbackLog,    \* the rows of FEEDBACK_PATH (main.py:42)
    suggestionsFile,\* the content of SUGGESTIONS_PATH (main.py:43)
    req,            \* the request handled last
    resp,           \* its response, with what the handler did on the way
    admitted,       \* history: address -> every timestamp _rate_limit admitted
    prev            \* history: the state in which the last request arrived

vars == <<API_KEY, ADMIN_TOKEN, RULES, rulesFile, _calls, now, feedbackLog,
          suggestionsFile, req, resp, admitted, prev>>

(***************************************************************************)
(* Python str                                                              *)
(***************************************************************************)

\* The characters the model uses, in code point order (sorted() compares by it).
CHARS ==
    <<" ","(",")",",","-",".","/","0","1","2","3","4","5","6","7","8","9",":",";","?">>
    \o <<"A","B","C","D","E","F","G","H","I","J","K","L","M","N","O","P","Q","R","S","T","U","V","W","X","Y","Z">>
    \o <<"[","]","_">>
    \o <<"a","b","c","d","e","f","g","h","i","j","k","l","m","n","o","p","q","r","s","t","u","v","w","x","y","z">>
    \o <<"{","|","}","§">>

Ord(c) == CHOOSE i \in DOMAIN CHARS : CHARS[i] = c

UpperCase == <<"A","B","C","D","E","F","G","H","I","J","K","L","M","N","O","P","Q","R","S","T","U","V","W","X","Y","Z">>

LowerCase == <<"a","b","c","d","e","f","g","h","i","j","k","l","m","n","o","p","q","r","s","t","u","v","w","x","y","z">>

Digits == {"0","1","2","3","4","5","6","7","8","9"}

Letters == {UpperCase[i] : i \in 1..26} \cup {LowerCase[i] : i \in 1..26}

LowerChar(c) ==
    IF \E i \in 1..26 : UpperCase[i] = c
    THEN LowerCase[CHOOSE i \in 1..26 : UpperCase[i] = c]
    ELSE c

\* str.lower()
Lower(s) == [i \in DOMAIN s |-> LowerChar(s[i])]

\* needle in hay
Contains(needle, hay) ==
    \E i \in 0..(Len(hay) - Len(needle)) : SubSeq(hay, i + 1, i + Len(needle)) = needle

\* a < b on str
StrLess(a, b) ==
    \/ \E i \in 1..Len(a) :
          /\ i <= Len(b)
          /\ \A j \in 1..(i - 1) : a[j] = b[j]
          /\ Ord(a[i]) < Ord(b[i])
    \/ /\ Len(a) < Len(b)
       /\ \A j \in 1..Len(a) : a[j] = b[j]

\* str.strip() of whitespace
RECURSIVE LStrip(_)
LStrip(s) == IF s # <<>> /\ s[1] = " " THEN LStrip(Tail(s)) ELSE s

RECURSIVE RStrip(_)
RStrip(s) ==
    IF s # <<>> /\ s[Len(s)] = " " THEN RStrip(SubSeq(s, 1, Len(s) - 1)) ELSE s

Strip(s) == RStrip(LStrip(s))

\* sorted(list(S)) for a set S of str
RECURSIVE SortedList(_)
SortedList(S) ==
    IF S = {} THEN <<>>
    ELSE LET m == CHOOSE x \in S : \A y \in S \ {x} : StrLess(x, y)
         IN  <<m>> \o SortedList(S \ {m})

\* list(dict.fromkeys(xs)): the first occurrence of each element, in order
RECURSIVE Dedupe(_)
Dedupe(xs) ==
    IF xs = <<>> THEN <<>>
    ELSE LET init == Dedupe(SubSeq(xs, 1, Len(xs) - 1))
             last == xs[Len(xs)]
         IN  IF \E i \in DOMAIN init : init[i] = last THEN init ELSE Append(init, last)

Range(xs) == {xs[i] : i \in DOMAIN xs}

(***************************************************************************)
(* Python dict, in insertion order                                         *)
(***************************************************************************)

DictHas(d, k) == \E i \in DOMAIN d : d[i].k = k

DictGet(d, k, default) ==
    IF DictHas(d, k) THEN d[CHOOSE i \in DOMAIN d : d[i].k = k].v ELSE default

\* d[k] = v: an existing key keeps its place, a new one goes last
DictSet(d, k, v) ==
    IF DictHas(d, k)
    THEN [i \in DOMAIN d |-> IF d[i].k = k THEN [k |-> k, v |-> v] ELSE d[i]]
    ELSE Append(d, [k |-> k, v |-> v])

(***************************************************************************)
(* Rules: DEFAULT_RULES, load_rules, save_rules                            *)
(***************************************************************************)

s_led == <<"l","e","d">>

s_bar == <<"b","a","r">>

s_fence == <<"f","e","n","c","e">>

s_district == <<"l","e","i","s","u","r","e"," ","a","n","d"," ","e","n","t","e","r","t","a","i","n","m","e","n","t"," ","d","i","s","t","r","i","c","t">>

s_sec515 == <<"s","e","c","."," ","5","1","5">>

s_alcoholic == <<"a","l","c","o","h","o","l","i","c"," ","b","e","v","e","r","a","g","e","s">>

s_onpremises == <<"o","n","-","p","r","e","m","i","s","e","s"," ","c","o","n","s","u","m","p","t","i","o","n">>

s_fences == <<"f","e","n","c","e","s">>

s_screening == <<"s","c","r","e","e","n","i","n","g">>

S515 == <<"S","5","1","5">>

S406 == <<"S","4","0","6">>

DEFAULT_RULES ==
    [ term_expansions |->
        << [k |-> s_led,   v |-> <<s_district, s_sec515>>],
           [k |-> s_bar,   v |-> <<s_alcoholic, s_onpremises>>],
           [k |-> s_fence, v |-> <<s_fences, s_screening>>] >>,
      mappings |-> << [k |-> s_district, v |-> <<S515>>] >>,
      boosts   |-> << [k |-> S515, v |-> 60], [k |-> S406, v |-> 40] >> ]

Sections == {"term_expansions", "mappings", "boosts"}

\* The rules file: absent, unreadable as YAML, or a YAML mapping of sections; a
\* section the mapping lacks or leaves empty is the empty dict here, since
\* load_rules treats the two alike.
FileAbsent == [state |-> "absent"]

FileCorrupt == [state |-> "corrupt"]

FileOf(rules) == [state |-> "yaml", data |-> rules]

\* save_rules: the file holds the dict it is given.
save_rules(rules) == FileOf(rules)

\* v or out.get(k, {}), section by section, over {**DEFAULT_RULES}
MergeSection(data, k) == IF data[k] # <<>> THEN data[k] ELSE DEFAULT_RULES[k]

MergeDefaults(data) ==
    [ term_expansions |-> MergeSection(data, "term_expansions"),
      mappings        |-> MergeSection(data, "mappings"),
      boosts          |-> MergeSection(data, "boosts") ]

\* What load_rules returns when the rules file is `file`.
load_rules(file) ==
    IF file.state = "yaml" THEN MergeDefaults(file.data) ELSE DEFAULT_RULES

\* What load_rules leaves in the rules file: the defaults when there was none.
load_rules_file(file) ==
    IF file.state = "absent" THEN save_rules(DEFAULT_RULES) ELSE file

(***************************************************************************)
(* Security / rate limiting: _rate_limit, _require_api_key,                *)
(* _require_admin_token, guard                                             *)
(***************************************************************************)

RATE_LIMIT == 60

_window == 60

\* A header that the request does not carry (headers.get gives None).
None == "<None>"

\* A limiter that would forget a request the moment it is _window old.
RECURSIVE Pruned_early(_, _)
Pruned_early(bucket, t) ==
    IF bucket # <<>> /\ t - bucket[1] >= _window THEN Pruned_early(Tail(bucket), t)
    ELSE bucket

\* while bucket and now - bucket[0] > _window: bucket.pop(0)
RECURSIVE Pruned(_, _)
Pruned(bucket, t) ==
    IF bucket # <<>> /\ t - bucket[1] > _window THEN Pruned(Tail(bucket), t) ELSE bucket

\* What _rate_limit(ip) returns.
_rate_limit(ip) == Len(Pruned(_calls[ip], now)) < RATE_LIMIT

\* The bucket _rate_limit(ip) leaves: pruned, and with now appended when admitted.
_rate_limit_bucket(ip) ==
    IF _rate_limit(ip) THEN Append(Pruned(_calls[ip], now), now) ELSE Pruned(_calls[ip], now)

\* A key check that would let a request without the header pass.
_require_api_key_lax(key) == IF API_KEY = "" THEN TRUE ELSE key \in {API_KEY, None}

_require_api_key(key) == IF API_KEY = "" THEN TRUE ELSE key = API_KEY

\* A token check without the test for an unset ADMIN_TOKEN.
_require_admin_token_unset(key) == key = ADMIN_TOKEN

_require_admin_token(key) == IF ADMIN_TOKEN = "" THEN FALSE ELSE key = ADMIN_TOKEN

ExemptPaths == {"/health", "/healthz", "/privacy"}

\* The guard middleware's verdict on a request: "next" (call_next), 429 or 401.
guard(r) ==
    IF r.path \in ExemptPaths THEN "next"
    ELSE IF ~_rate_limit(r.ip) THEN "429"
    ELSE IF ~_require_api_key(r.key) THEN "401"
    ELSE "next"

\* The rate limiter is consulted for every path that is not exempt.
guard_calls(r) ==
    IF r.path \in ExemptPaths THEN _calls
    ELSE [_calls EXCEPT ![r.ip] = _rate_limit_bucket(r.ip)]

guard_admitted(r) ==
    IF r.path \notin ExemptPaths /\ _rate_limit(r.ip)
    THEN [admitted EXCEPT ![r.ip] = Append(@, now)]
    ELSE admitted

\* A response that ends the request before or without a result.
Reply(status, detail, handler) ==
    [status |-> status, detail |-> detail, handler |-> handler, out |-> <<>>]

\* The guard middleware's own responses (main.py:86 and main.py:91).
guard_response(r) ==
    IF guard(r) = "429" THEN Reply(429, "rate_limit_exceeded", "none")
    ELSE Reply(401, "unauthorized", "none")

\* admin_guard: raises 401 unless the admin token matches.
admin_guard(r) == _require_admin_token(r.token)

(***************************************************************************)
(* Search: _boost_score, _expand_terms, _implied_sections,                 *)
(* duckduck_search, search_ordinance; and fetch_by_url                     *)
(***************************************************************************)

MUNICODE == <<"l","i","b","r","a","r","y",".","m","u","n","i","c","o","d","e",".","c","o","m">>

Max(a, b) == IF a >= b THEN a ELSE b

\* the sum of float(weight) over the boosts whose token.lower() is in url_l
RECURSIVE SumBoosts(_, _)
SumBoosts(boosts, url_l) ==
    IF boosts = <<>> THEN 0
    ELSE (IF Contains(Lower(boosts[1].k), url_l) THEN boosts[1].v ELSE 0)
         + SumBoosts(Tail(boosts), url_l)

_boost_score(url, base) == base + SumBoosts(RULES.boosts, Lower(url))

\* out.extend(vals) for every entry of d, in dict order, whose key is in q_l
RECURSIVE ExtendMatching(_, _)
ExtendMatching(d, q_l) ==
    IF d = <<>> THEN <<>>
    ELSE (IF Contains(d[1].k, q_l) THEN d[1].v ELSE <<>>) \o ExtendMatching(Tail(d), q_l)

_expand_terms(q) == Dedupe(<<q>> \o ExtendMatching(RULES.term_expansions, Lower(q)))

_implied_sections(q) == Dedupe(ExtendMatching(RULES.mappings, Lower(q)))

max_links == 6

FirstN(xs, n) == SubSeq(xs, 1, IF Len(xs) < n THEN Len(xs) ELSE n)

IsMunicodeHref(h) == h # <<>> /\ Contains(MUNICODE, h)

\* duckduck_search after its HTTP call: the links of the result page that name
\* Municode, without repetitions, max_links at most.
duckduck_search(hrefs) == FirstN(Dedupe(SelectSeq(hrefs, IsMunicodeHref)), max_links)

\* The search engine's answer to pass idx (from 0): web answers pass after pass,
\* starting over when the passes outnumber it.
WebAt(web, idx) == web[(idx % Len(web)) + 1]

\* score += 0.5 for each implied section whose lower() is in the url's lower()
ImpliedBonus(u, implied) ==
    50 * Cardinality({i \in DOMAIN implied : Contains(Lower(implied[i]), Lower(u))})

\* base = 1.0 - idx * 0.05; score = _boost_score(u, base) plus the implied nudges
PassScore(u, idx, implied) == _boost_score(u, 100 - idx * 5) + ImpliedBonus(u, implied)

\* scored[u] = max(scored.get(u, 0), score)
Rescored(scored, u, score) == DictSet(scored, u, Max(DictGet(scored, u, 0), score))

RECURSIVE ScoreUrls(_, _, _, _)
ScoreUrls(urls, idx, implied, scored) ==
    IF urls = <<>> THEN scored
    ELSE ScoreUrls(Tail(urls), idx, implied,
                   Rescored(scored, urls[1], PassScore(urls[1], idx, implied)))

\* for idx, term in enumerate(queries): a pass whose search raises is skipped
RECURSIVE ScorePasses(_, _, _, _, _)
ScorePasses(n, idx, web, implied, scored) ==
    IF idx >= n THEN scored
    ELSE ScorePasses(n, idx + 1, web, implied,
            IF WebAt(web, idx).ok
            THEN ScoreUrls(duckduck_search(WebAt(web, idx).hrefs), idx, implied, scored)
            ELSE scored)

\* sorted(items, key=score, reverse=True): stable, so ties keep dict order
RECURSIVE SortedByScore(_)
SortedByScore(items) ==
    IF items = <<>> THEN <<>>
    ELSE LET i == CHOOSE i \in DOMAIN items :
                     /\ \A j \in DOMAIN items : items[j].v <= items[i].v
                     /\ \A j \in 1..(i - 1) : items[j].v < items[i].v
         IN  <<items[i]>>
             \o SortedByScore(SubSeq(items, 1, i - 1) \o SubSeq(items, i + 1, Len(items)))

top_k == 5

Keys(items) == [i \in DOMAIN items |-> items[i].k]

\* The part of search_ordinance up to the page fetches.
search_scored(q, web) ==
    ScorePasses(Len(_expand_terms(q)), 0, web, _implied_sections(q), <<>>)

search_top_urls(q, web) == Keys(FirstN(SortedByScore(search_scored(q, web)), top_k))

\* A search that would go on to the next candidate when a page fetch fails.
search_results_refilled(q, web, failing) ==
    FirstN(SelectSeq(Keys(SortedByScore(search_scored(q, web))),
                     LAMBDA u : u \notin failing), top_k)

\* fetch_url raises for the urls in failing; extract_section_fields keeps the url.
search_results(q, web, failing) ==
    LET top == search_top_urls(q, web)
        keep == {i \in DOMAIN top : top[i] \notin failing}
        RECURSIVE Pick(_)
        Pick(i) == IF i > Len(top) THEN <<>>
                   ELSE (IF i \in keep THEN <<top[i]>> ELSE <<>>) \o Pick(i + 1)
    IN  Pick(1)

\* search_ordinance: its response, with the intermediate values it computed
\* and the urls it handed to fetch_url.
search_ordinance(q, web, failing) ==
    [ status  |-> 200, detail |-> "ok", handler |-> "search_ordinance",
      out     |-> [ query    |-> q,
                    results  |-> search_results(q, web, failing),
                    queries  |-> _expand_terms(q),
                    implied  |-> _implied_sections(q),
                    scored   |-> search_scored(q, web),
                    top_urls |-> search_top_urls(q, web),
                    fetched  |-> search_top_urls(q, web) ] ]

\* fetch_by_url: the substring test, then fetch_url, which may raise.
fetch_by_url(url, fetch_ok) ==
    IF ~Contains(MUNICODE, url)
    THEN [ status |-> 400, detail |-> "Only Municode URLs are supported.",
           handler |-> "fetch_by_url", out |-> [fetched |-> <<>>] ]
    ELSE IF ~fetch_ok
    THEN [ status |-> 500, detail |-> "Internal Server Error",
           handler |-> "fetch_by_url", out |-> [fetched |-> <<url>>] ]
    ELSE [ status |-> 200, detail |-> "ok",
           handler |-> "fetch_by_url", out |-> [fetched |-> <<url>>, url |-> url] ]

(***************************************************************************)
(* Feedback and suggestions: receive_feedback, SEC_RX,                     *)
(* _extract_sections_from_text, build_suggestions                          *)
(***************************************************************************)

\* FeedbackIn: rating is an int with ge=1, le=5; anything else is a 422.
ValidFeedback(payload) == payload.rating \in 1..5

\* row = payload.dict(); row["ts"] = utcnow. A row's rating is <<r>>, or <<>>
\* in a row that has none.
FeedbackRow(payload) ==
    [ answer_id |-> payload.answer_id, query |-> payload.query,
      rating |-> <<payload.rating>>, comment |-> payload.comment,
      suggested_urls |-> payload.suggested_urls, ts |-> now ]

\* [\dA-Za-z\.\-]
SecChars == Digits \cup Letters \cup {".", "-"}

\* \s* from position i: the first position that holds no whitespace
RECURSIVE SkipSpace(_, _)
SkipSpace(text, i) ==
    IF i <= Len(text) /\ text[i] = " " THEN SkipSpace(text, i + 1) ELSE i

\* the position after the run of characters of the set C that starts at i
RECURSIVE RunEnd(_, _, _)
RunEnd(text, i, C) ==
    IF i <= Len(text) /\ text[i] \in C THEN RunEnd(text, i + 1, C) ELSE i

\* \s*[\dA-Za-z\.\-]+ from position i: the position after the match, 0 for none
SpaceThenSec(text, i) ==
    LET w == SkipSpace(text, i)
    IN  IF w <= Len(text) /\ text[w] \in SecChars THEN RunEnd(text, w, SecChars) ELSE 0

StartsAt(text, i, word) ==
    i + Len(word) - 1 <= Len(text) /\ SubSeq(text, i, i + Len(word) - 1) = word

\* SEC_RX at position i: the position after the match, 0 for none. \.? takes the
\* dot when the rest then matches, and gives it back otherwise.
SEC_RX(text, i) ==
    IF StartsAt(text, i, <<"S","e","c">>)
    THEN LET withDot == IF StartsAt(text, i + 3, <<".">>)
                        THEN SpaceThenSec(text, i + 4) ELSE 0
         IN  IF withDot # 0 THEN withDot ELSE SpaceThenSec(text, i + 3)
    ELSE IF StartsAt(text, i, <<"§">>) THEN SpaceThenSec(text, i + 1)
    ELSE 0

\* SEC_RX.findall(text) from position i: leftmost matches that do not overlap
RECURSIVE FindAllSec(_, _)
FindAllSec(text, i) ==
    IF i > Len(text) THEN <<>>
    ELSE IF SEC_RX(text, i) # 0
         THEN <<SubSeq(text, i, SEC_RX(text, i) - 1)>> \o FindAllSec(text, SEC_RX(text, i))
         ELSE FindAllSec(text, i + 1)

\* s.replace(word, "")
RECURSIVE Remove(_, _)
Remove(s, word) ==
    IF s = <<>> THEN <<>>
    ELSE IF StartsAt(s, 1, word) THEN Remove(SubSeq(s, Len(word) + 1, Len(s)), word)
    ELSE <<s[1]>> \o Remove(Tail(s), word)

\* s.strip(".")
RECURSIVE StripDots(_)
StripDots(s) ==
    IF s # <<>> /\ s[1] = "." THEN StripDots(Tail(s))
    ELSE IF s # <<>> /\ s[Len(s)] = "." THEN StripDots(SubSeq(s, 1, Len(s) - 1))
    ELSE s

IsDigit(c) == c \in Digits

SuffixChars == Letters \cup {"-", "."}

Alnum == Digits \cup Letters

IsKept(c) == c \in Digits \cup Letters \cup {"."}

\* re.search(r"([0-9]{2,4}[A-Za-z\-\.]*)", s) from position i: <<the match>>, or <<>>
RECURSIVE SearchNumber(_, _)
SearchNumber(s, i) ==
    IF i + 1 > Len(s) THEN <<>>
    ELSE IF IsDigit(s[i]) /\ IsDigit(s[i + 1])
         THEN LET d == IF RunEnd(s, i, Digits) > i + 4 THEN i + 4 ELSE RunEnd(s, i, Digits)
              IN  <<SubSeq(s, i, RunEnd(s, d, SuffixChars) - 1)>>
         ELSE SearchNumber(s, i + 1)

\* the normalisation of one hit: <<"S" + number>>, or <<>>
NormalizeHit(h) ==
    LET s == StripDots(Remove(Remove(SelectSeq(h, IsKept), <<"S","e","c",".">>),
                              <<"s","e","c",".">>))
        m == SearchNumber(s, 1)
    IN  IF m = <<>> THEN <<>> ELSE << <<"S">> \o m[1] >>

RECURSIVE NormalizeHits(_)
NormalizeHits(hits) ==
    IF hits = <<>> THEN <<>> ELSE NormalizeHit(hits[1]) \o NormalizeHits(Tail(hits))

_extract_sections_from_text(text) ==
    IF text = <<>> THEN <<>> ELSE Dedupe(NormalizeHits(FindAllSec(text, 1)))

\* {"S" + s for s in re.findall(r"_S([0-9A-Za-z]+)", u)} from position i
RECURSIVE UrlSections(_, _)
UrlSections(u, i) ==
    IF i > Len(u) THEN {}
    ELSE IF StartsAt(u, i, <<"_","S">>) /\ RunEnd(u, i + 2, Alnum) > i + 2
         THEN { <<"S">> \o SubSeq(u, i + 2, RunEnd(u, i + 2, Alnum) - 1) }
              \cup UrlSections(u, RunEnd(u, i + 2, Alnum))
         ELSE UrlSections(u, i + 1)

IsSplitChar(c) == c \in {",", ";", "/", "|", "(", ")", "[", "]", "{", "}"}

\* re.split(r"[,;/\|\(\)\[\]\{\}]", comment)
RECURSIVE Split(_, _)
Split(text, cur) ==
    IF text = <<>> THEN <<cur>>
    ELSE IF IsSplitChar(text[1]) THEN <<cur>> \o Split(Tail(text), <<>>)
    ELSE Split(Tail(text), Append(cur, text[1]))

\* tokens: [t.strip().lower() for t in re.split(...) if t.strip()], when comment
CommentTokens(comment) ==
    IF comment = <<>> THEN {}
    ELSE { Lower(Strip(t)) : t \in {x \in Range(Split(comment, <<>>)) : Strip(x) # <<>>} }

\* row.get("rating", 5)
\* A reading of the rows in which a row without rating counts as a miss.
RowRating_miss(row) == IF row.rating = <<>> THEN 0 ELSE row.rating[1]

RowRating(row) == IF row.rating = <<>> THEN 5 ELSE row.rating[1]

\* (row.get("query") or "").lower().strip()
RowQuery(row) == Strip(Lower(row.query))

\* secs: the sections of the comment and of the suggested urls
RowSecs(row) ==
    Range(_extract_sections_from_text(row.comment))
    \cup UNION { UrlSections(row.suggested_urls[i], 1) : i \in DOMAIN row.suggested_urls }

\* the tokens the row offers as expansions of its query
RowExpansions(row) ==
    { t \in CommentTokens(row.comment) :
        Len(t) <= 20 /\ ~Contains(t, RowQuery(row)) /\ Contains(<<" ">>, t) }

\* defaultdict(set)[k] |= S: the key appears with its first element
AddAll(d, k, S) ==
    IF S = {} THEN d
    ELSE [x \in DOMAIN d \cup {k} |->
            IF x = k THEN (IF k \in DOMAIN d THEN d[k] ELSE {}) \cup S ELSE d[x]]

\* defaultdict(float)[s] += 0.2 for s in secs
Bump(d, secs) ==
    [s \in DOMAIN d \cup secs |->
        (IF s \in DOMAIN d THEN d[s] ELSE 0) + (IF s \in secs THEN 20 ELSE 0)]

\* One turn of build_suggestions' loop over the rows.
LearnRow(p, row) ==
    IF RowRating(row) > 3 THEN p
    ELSE [ term_expansions |-> AddAll(p.term_expansions, RowQuery(row), RowExpansions(row)),
           mappings        |-> AddAll(p.mappings, RowQuery(row), RowSecs(row)),
           boosts          |-> Bump(p.boosts, RowSecs(row)) ]

RECURSIVE LearnRows(_, _)
LearnRows(p, rows) ==
    IF rows = <<>> THEN p ELSE LearnRows(LearnRow(p, rows[1]), Tail(rows))

EmptyDict == [x \in {} |-> {}]

\* build_suggestions. A proposal dict is compared as Python compares dicts,
\* whatever the order of its keys: it is a function here.
build_suggestions(feedback_rows) ==
    LET p == LearnRows([term_expansions |-> EmptyDict, mappings |-> EmptyDict,
                        boosts |-> EmptyDict], feedback_rows)
    IN  [ term_expansions |->
              [k \in {x \in DOMAIN p.term_expansions : p.term_expansions[x] # {}} |->
                  SortedList(p.term_expansions[k])],
          mappings |->
              [k \in {x \in DOMAIN p.mappings : p.mappings[x] # {}} |->
                  SortedList(p.mappings[k])],
          boosts |-> [k \in {x \in DOMAIN p.boosts : p.boosts[x] > 0} |-> p.boosts[k]],
          generated_at |-> now,
          count_source_rows |-> Len(feedback_rows) ]

(***************************************************************************)
(* Admin: admin_approve                                                    *)
(***************************************************************************)

\* A body is a JSON object [kind, key, values]; values is [type, items] with type "list"
\* (items: strings), "dict" (items: [k, v] pairs with numeric v) or "other"
\* (a string, a number, null). A key that is null or "" is <<>>.
ApproveKinds == {"term_expansions", "mappings", "boosts"}

\* rules["boosts"][str(k)] = float(v), item after item
RECURSIVE SetAll(_, _)
SetAll(d, items) ==
    IF items = <<>> THEN d ELSE SetAll(DictSet(d, items[1].k, items[1].v), Tail(items))

\* a list of tokens stands for the weight 0.3 each
ListWeight(tokens) == [i \in DOMAIN tokens |-> [k |-> tokens[i], v |-> 30]]

\* An approve that would append the values to the list under the key.
MergedBucket_appended(bucket, key, items) ==
    DictSet(bucket, key, DictGet(bucket, key, <<>>) \o items)

\* bucket[key] = sorted(list(set(bucket.get(key, []) or []) | set(values)))
MergedBucket(bucket, key, items) ==
    DictSet(bucket, key, SortedList(Range(DictGet(bucket, key, <<>>)) \cup Range(items)))

\* The rules admin_approve saves, from the rules load_rules gave it.
approved_rules(body, rules) ==
    IF body.kind = "boosts"
    THEN [rules EXCEPT !.boosts =
            SetAll(@, IF body.values.type = "dict" THEN body.values.items
                      ELSE ListWeight(body.values.items))]
    ELSE IF body.kind = "term_expansions"
    THEN [rules EXCEPT !.term_expansions = MergedBucket(@, body.key, body.values.items)]
    ELSE [rules EXCEPT !.mappings = MergedBucket(@, body.key, body.values.items)]

\* The HTTPException admin_approve raises for the body, "" when it raises none.
approve_error(body) ==
    IF body.kind \notin ApproveKinds THEN "invalid kind"
    ELSE IF body.key = <<>> THEN "missing key"
    ELSE IF body.kind = "boosts" /\ body.values.type \notin {"dict", "list"}
    THEN "boosts expects dict or list"
    ELSE IF body.kind # "boosts" /\ body.values.type # "list" THEN "values must be list"
    ELSE ""

\* The rules file after admin_approve(body): untouched by the first two
\* errors, read (and created when absent) before the other two, saved otherwise.
approve_file(body) ==
    IF approve_error(body) \in {"invalid kind", "missing key"} THEN rulesFile
    ELSE IF approve_error(body) # "" THEN load_rules_file(rulesFile)
    ELSE save_rules(approved_rules(body, load_rules(rulesFile)))

\* RULES after admin_approve(body): reloaded from the file it saved.
approve_RULES(body) ==
    IF approve_error(body) # "" THEN RULES ELSE load_rules(approve_file(body))

admin_approve(body) ==
    IF approve_error(body) # "" THEN Reply(400, approve_error(body), "admin_approve")
    ELSE [ status |-> 200, detail |-> "ok", handler |-> "admin_approve",
           out |-> [updated |-> body.kind, key |-> body.key, values |-> body.values] ]

(***************************************************************************)
(* The requests: one action per route, the guard middleware first          *)
(***************************************************************************)

\* The middleware's part of every request.
Snapshot ==
    [ RULES |-> RULES, rulesFile |-> rulesFile, feedbackLog |-> feedbackLog,
      suggestionsFile |-> suggestionsFile, _calls |-> _calls, now |-> now,
      admitted |-> admitted ]

Middleware(r) ==
    /\ req' = r
    /\ _calls' = guard_calls(r)
    /\ admitted' = guard_admitted(r)
    /\ prev' = Snapshot

Frozen == UNCHANGED <<API_KEY, ADMIN_TOKEN, now>>

\* GET /health, /healthz, /privacy
Health(r) ==
    /\ r.path \in ExemptPaths
    /\ Middleware(r)
    /\ resp' = Reply(200, "ok", r.path)
    /\ Frozen
    /\ UNCHANGED <<RULES, rulesFile, feedbackLog, suggestionsFile>>

\* GET /fetchByUrl?url=
FetchByUrl(r) ==
    /\ r.path = "/fetchByUrl"
    /\ Middleware(r)
    /\ resp' = IF guard(r) # "next" THEN guard_response(r)
               ELSE fetch_by_url(r.arg.url, r.arg.fetch_ok)
    /\ Frozen
    /\ UNCHANGED <<RULES, rulesFile, feedbackLog, suggestionsFile>>

\* GET /searchOrdinance?q= (q: min_length=2)
SearchOrdinance(r) ==
    /\ r.path = "/searchOrdinance"
    /\ Middleware(r)
    /\ resp' = IF guard(r) # "next" THEN guard_response(r)
               ELSE IF Len(r.arg.q) < 2 THEN Reply(422, "validation", "none")
               ELSE search_ordinance(r.arg.q, r.arg.web, r.arg.failing)
    /\ Frozen
    /\ UNCHANGED <<RULES, rulesFile, feedbackLog, suggestionsFile>>

\* POST /feedback
ReceiveFeedback(r) ==
    /\ r.path = "/feedback"
    /\ Middleware(r)
    /\ IF guard(r) # "next"
       THEN resp' = guard_response(r) /\ UNCHANGED feedbackLog
       ELSE IF ~ValidFeedback(r.arg)
       THEN resp' = Reply(422, "validation", "none") /\ UNCHANGED feedbackLog
       ELSE /\ feedbackLog' = Append(feedbackLog, FeedbackRow(r.arg))
            /\ resp' = Reply(200, "stored", "receive_feedback")
    /\ Frozen
    /\ UNCHANGED <<RULES, rulesFile, suggestionsFile>>

\* GET /admin and GET /rules
AdminRead(r) ==
    /\ r.path \in {"/admin", "/rules"}
    /\ Middleware(r)
    /\ resp' = IF guard(r) # "next" THEN guard_response(r)
               ELSE IF ~admin_guard(r) THEN Reply(401, "admin_unauthorized", r.path)
               ELSE [ status |-> 200, detail |-> "ok", handler |-> r.path,
                      out |-> IF r.path = "/rules" THEN RULES ELSE <<>> ]
    /\ Frozen
    /\ UNCHANGED <<RULES, rulesFile, feedbackLog, suggestionsFile>>

\* GET /admin/suggestions
AdminSuggestions(r) ==
    /\ r.path = "/admin/suggestions"
    /\ Middleware(r)
    /\ IF guard(r) # "next"
       THEN resp' = guard_response(r) /\ UNCHANGED suggestionsFile
       ELSE IF ~admin_guard(r)
       THEN resp' = Reply(401, "admin_unauthorized", "admin_suggestions")
            /\ UNCHANGED suggestionsFile
       ELSE /\ suggestionsFile' = build_suggestions(feedbackLog)
            /\ resp' = [ status |-> 200, detail |-> "ok", handler |-> "admin_suggestions",
                         out |-> build_suggestions(feedbackLog) ]
    /\ Frozen
    /\ UNCHANGED <<RULES, rulesFile, feedbackLog>>

\* POST /admin/approve
AdminApprove(r) ==
    /\ r.path = "/admin/approve"
    /\ Middleware(r)
    /\ IF guard(r) # "next"
       THEN resp' = guard_response(r) /\ UNCHANGED <<RULES, rulesFile>>
       ELSE IF ~admin_guard(r)
       THEN resp' = Reply(401, "admin_unauthorized", "admin_approve")
            /\ UNCHANGED <<RULES, rulesFile>>
       ELSE /\ resp' = admin_approve(r.arg)
            /\ rulesFile' = approve_file(r.arg)
            /\ RULES' = approve_RULES(r.arg)
    /\ Frozen
    /\ UNCHANGED <<feedbackLog, suggestionsFile>>

\* The clock moves on.
Tick(d) ==
    /\ now' = now + d
    /\ UNCHANGED <<API_KEY, ADMIN_TOKEN, RULES, rulesFile, _calls, feedbackLog,
                   suggestionsFile, req, resp, admitted, prev>>

(***************************************************************************)
(* Inputs                                                                  *)
(***************************************************************************)

IPs == {"10.0.0.1", "10.0.0.2"}

HTTPS == <<"h","t","t","p","s",":","/","/">>

Url(path) == HTTPS \o MUNICODE \o path

UrlS515 == Url(<<"/","_","S","5","1","5">>)

UrlS406 == Url(<<"/","_","S","4","0","6">>)

UrlA == Url(<<"/","a">>)

UrlB == Url(<<"/","b">>)

UrlC == Url(<<"/","c">>)

UrlD == Url(<<"/","d">>)

UrlE == Url(<<"/","e">>)

\* A page of another host whose address mentions Municode.
UrlMirror == <<"h","t","t","p","s",":","/","/","e","v",".","i","o","/","?">> \o MUNICODE

\* A page of another host.
UrlOther == <<"h","t","t","p","s",":","/","/","e","v",".","i","o","/","x">>

s_LED == <<"L","E","D">>

s_zone == <<"z","o","n","e">>

s_light_zone == <<"l","i","g","h","t"," ","z","o","n","e">>

Found(hrefs) == [ok |-> TRUE, hrefs |-> hrefs]

SearchFailed == [ok |-> FALSE, hrefs |-> <<>>]

\* What the search engine answers, pass after pass.
WebFull == << Found(<<UrlA, UrlB, UrlC, UrlD, UrlE, UrlS406, UrlS515>>),
              Found(<<UrlS515, UrlA>>),
              SearchFailed >>

WebPartial == << SearchFailed, Found(<<UrlOther, UrlMirror, UrlS406, UrlS406>>), Found(<<>>) >>

WebSections == << Found(<<UrlS406, UrlS515, UrlA, UrlB, UrlC, UrlD>>) >>

ListOf(items) == [type |-> "list", items |-> items]

DictOf(items) == [type |-> "dict", items |-> items]

OtherValue == [type |-> "other", items |-> <<>>]

Body(kind, key, values) == [kind |-> kind, key |-> key, values |-> values]

B_te_upper == Body("term_expansions", s_LED, ListOf(<<s_light_zone>>))

B_te_led == Body("term_expansions", s_led, ListOf(<<s_zone, s_sec515>>))

B_map_bar == Body("mappings", s_bar, ListOf(<<S406>>))

B_map_doc == Body("mapping", s_bar, ListOf(<<S406>>))

B_boost_dict ==
    Body("boosts", S406, DictOf(<< [k |-> S406, v |-> 90], [k |-> <<"_","S","5">>, v |-> 25] >>))

B_boost_list == Body("boosts", S515, ListOf(<<S515>>))

B_boost_neg ==
    Body("boosts", S406, DictOf(<< [k |-> S406, v |-> -300], [k |-> S515, v |-> -200] >>))

B_bad_kind == Body("bogus", s_led, ListOf(<<s_zone>>))

B_no_key == Body("term_expansions", <<>>, ListOf(<<s_zone>>))

B_te_other == Body("term_expansions", s_led, OtherValue)

B_boost_other == Body("boosts", S515, OtherValue)

Request(path, ip, key, token, arg) ==
    [path |-> path, ip |-> ip, key |-> key, token |-> token, arg |-> arg]

NoRequest == Request("", "", None, None, <<>>)

\* A rules file written by hand that names one section only.
FilePartial ==
    FileOf([ term_expansions |-> << [k |-> s_fence, v |-> <<s_fences>>] >>,
             mappings |-> <<>>, boosts |-> <<>> ])

Disks == {FileAbsent, FileCorrupt, FilePartial}

\* The window of every address holds RATE_LIMIT - slack requests, admitted at
\* time 0, when the model starts.
Prefilled(slack) == [ip \in IPs |-> [i \in 1..(RATE_LIMIT - slack) |-> 0]]

NoSuggestions == [generated_at |-> -1]

\* The state after the module is loaded (RULES = load_rules(), main.py:194)
\* with the rules file `disk`, the given environment and feedback log.
Started(keys, tokens, disks, slack, logs) ==
    /\ API_KEY \in keys
    /\ ADMIN_TOKEN \in tokens
    /\ \E disk \in disks : RULES = load_rules(disk) /\ rulesFile = load_rules_file(disk)
    /\ _calls = Prefilled(slack)
    /\ admitted = Prefilled(slack)
    /\ now = 0
    /\ feedbackLog \in logs
    /\ suggestionsFile = NoSuggestions
    /\ req = NoRequest
    /\ resp = Reply(0, "", "none")
    /\ prev = Snapshot

(***************************************************************************)
(* Spec: the admin surface and the rules                                   *)
(***************************************************************************)

Slack == 2

Client == "10.0.0.1"

AdminBodies ==
    { B_te_upper, B_te_led, B_map_bar, B_map_doc, B_boost_dict, B_boost_list,
      B_bad_kind, B_no_key, B_te_other, B_boost_other }

\* Every body with the right key and token; one body with each wrong credential.
ApproveRequests ==
    { Request("/admin/approve", Client, "k1", "t1", b) : b \in AdminBodies }
    \cup { Request("/admin/approve", Client, "k1", t, B_te_led) : t \in {None, "", "t2"} }
    \cup { Request("/admin/approve", Client, "k2", "t1", B_boost_list) }

Requests ==
    { Request(path, Client, None, None, <<>>) : path \in ExemptPaths }
    \cup { Request(path, Client, "k1", t, <<>>) :
             path \in {"/admin", "/rules", "/admin/suggestions"}, t \in {None, "t1"} }
    \cup ApproveRequests
    \cup { Request("/searchOrdinance", Client, "k1", None,
                   [q |-> q, web |-> WebFull, failing |-> {}]) : q \in {s_LED, s_bar} }

Init == Started({"", "k1"}, {"", "t1"}, Disks, Slack, {<<>>})

Next ==
    \E r \in Requests :
        \/ Health(r)
        \/ AdminRead(r)
        \/ AdminSuggestions(r)
        \/ AdminApprove(r)
        \/ SearchOrdinance(r)

Spec == Init /\ [][Next]_vars

(***************************************************************************)
(* Properties of the admin surface (Spec)                                  *)
(***************************************************************************)

AdminPaths == {"/admin", "/rules", "/admin/suggestions", "/admin/approve"}

\* The kinds the admin page names (main.py:482).
DocumentedKinds == {"mapping", "term_expansions", "boosts"}

\* The values the admin page shows: a list, or for boosts a {token: weight} dict.
DocumentedShape(body) ==
    IF body.kind = "boosts" THEN body.values.type \in {"dict", "list"}
    ELSE body.values.type = "list"

SectionOf(kind) == IF kind = "mapping" THEN "mappings" ELSE kind

\* The rules hold what the body asks for.
EntryStored(body, rules) ==
    IF body.kind = "boosts"
    THEN \A i \in DOMAIN body.values.items :
            IF body.values.type = "dict"
            THEN /\ DictHas(rules.boosts, body.values.items[i].k)
                 /\ DictGet(rules.boosts, body.values.items[i].k, 0) = body.values.items[i].v
            ELSE /\ DictHas(rules.boosts, body.values.items[i])
                 /\ DictGet(rules.boosts, body.values.items[i], 0) = 30
    ELSE Range(body.values.items)
            \subseteq Range(DictGet(rules[SectionOf(body.kind)], body.key, <<>>))

\* The last request was POST /admin/approve, passed the middleware and carried
\* the admin token.
ApproveAuthorized ==
    /\ req.path = "/admin/approve"
    /\ resp.handler = "admin_approve"
    /\ _require_admin_token(req.token)

ApprovedOk == ApproveAuthorized /\ resp.status = 200

SearchedOk == req.path = "/searchOrdinance" /\ resp.handler = "search_ordinance"

\* The window of the request's address was full when it arrived.
OverLimit ==
    /\ req.path \notin ExemptPaths
    /\ Len(Pruned(prev._calls[req.ip], prev.now)) >= RATE_LIMIT

RulesChanged == RULES # prev.RULES \/ rulesFile # prev.rulesFile

\* C7: an authorized POST /admin/approve with a kind the admin page documents
\* ("mapping", "term_expansions", "boosts"), a non-empty key and values of the
\* documented shape is applied and answered ok.
C7_DocumentedKindsAccepted ==
    ( /\ ApproveAuthorized
      /\ req.arg.kind \in DocumentedKinds
      /\ req.arg.key # <<>>
      /\ DocumentedShape(req.arg) )
    => /\ resp.status = 200
       /\ EntryStored(req.arg, RULES)

\* The sum of the weights of the boost tokens that occur, whatever the case,
\* in the url.
RECURSIVE SumOver(_, _)
SumOver(I, w) ==
    IF I = {} THEN 0
    ELSE LET i == CHOOSE x \in I : TRUE IN w[i].v + SumOver(I \ {i}, w)

BoostOf(u, boosts) ==
    SumOver({i \in DOMAIN boosts : Contains(Lower(boosts[i].k), Lower(u))}, boosts)

\* C2, first part: after an approve that returns ok, RULES equals the content of
\* the rules file and holds the approved entry.
C2_Stored ==
    ApprovedOk => /\ rulesFile = FileOf(RULES)
                  /\ EntryStored(req.arg, RULES)

\* C2, second part: a search expands a query that contains a key of the term
\* expansions with the phrases stored under it, and takes the sections of a
\* mapping whose key the query contains as implied sections.
C2_SearchUsesKeys ==
    SearchedOk =>
        /\ \A i \in DOMAIN RULES.term_expansions :
              Contains(RULES.term_expansions[i].k, req.arg.q)
              => Range(RULES.term_expansions[i].v) \subseteq Range(resp.out.queries)
        /\ \A i \in DOMAIN RULES.mappings :
              Contains(RULES.mappings[i].k, req.arg.q)
              => Range(RULES.mappings[i].v) \subseteq Range(resp.out.implied)

\* C2, third part: a candidate url scores, on top of its best pass, the weight
\* of every boost token it contains.
C2_SearchUsesBoosts ==
    SearchedOk =>
        \A i \in DOMAIN resp.out.scored :
            \E idx \in 0..(Len(resp.out.queries) - 1) :
                resp.out.scored[i].v =
                    (100 - 5 * idx) + BoostOf(resp.out.scored[i].k, RULES.boosts)
                    + ImpliedBonus(resp.out.scored[i].k, resp.out.implied)

\* C2: after any POST /admin/approve that returns ok, RULES equals the rules file
\* and contains the approved entry, and every later search uses it: a query that
\* contains the approved key is expanded or gets the implied sections, and a url
\* that contains an approved boost token scores higher by its weight.
C2_ApprovedRulesUsed == C2_Stored /\ C2_SearchUsesKeys /\ C2_SearchUsesBoosts

\* An approve added values or overwrote weights, and removed nothing.
NothingRemoved(old, new) ==
    /\ \A k \in {"term_expansions", "mappings"} :
          \A i \in DOMAIN old[k] :
              /\ DictHas(new[k], old[k][i].k)
              /\ Range(old[k][i].v) \subseteq Range(DictGet(new[k], old[k][i].k, <<>>))
    /\ \A i \in DOMAIN old.boosts : DictHas(new.boosts, old.boosts[i].k)

\* The rules change only in an authorized approve with a valid body.
C10_OnlyApproveChanges ==
    RulesChanged => /\ ApprovedOk
                    /\ ADMIN_TOKEN # ""
                    /\ req.token = ADMIN_TOKEN
                    /\ approve_error(req.arg) = ""

C10_RejectedKeeps ==
    (req.path = "/admin/approve" /\ resp.status = 400) => ~RulesChanged

C10_ApproveKeeps == ApprovedOk => NothingRemoved(prev.RULES, RULES)

s_x == <<"x">>

SearchBodies == {B_boost_neg, B_map_bar, B_te_led}

Failings == { {}, {UrlS515, UrlA}, {UrlS406} }

SearchRequests ==
    { Request("/admin/approve", Client, None, "t1", b) : b \in SearchBodies }
    \cup { Request("/searchOrdinance", Client, None, None,
                   [q |-> q, web |-> web, failing |-> failing]) :
             q \in {s_LED, s_bar, s_district, s_x},
             web \in {WebFull, WebPartial, WebSections},
             failing \in Failings }
    \cup { Request("/fetchByUrl", Client, None, None, [url |-> u, fetch_ok |-> ok]) :
             u \in {UrlS515, UrlMirror, UrlOther}, ok \in BOOLEAN }

InitSearch == Started({""}, {"t1"}, {FileAbsent}, Slack, {<<>>})

NextSearch ==
    \E r \in SearchRequests :
        \/ AdminApprove(r)
        \/ SearchOrdinance(r)
        \/ FetchByUrl(r)

SpecSearch == InitSearch /\ [][NextSearch]_vars

MaxOf(S) == CHOOSE x \in S : \A y \in S : y <= x

\* The passes of the last search that the search engine answered, and what
\* each of them returned.
PassesOk ==
    {idx \in 0..(Len(resp.out.queries) - 1) : WebAt(req.arg.web, idx).ok}

Returned(idx) == Range(duckduck_search(WebAt(req.arg.web, idx).hrefs))

Candidates == UNION {Returned(idx) : idx \in PassesOk}

\* The final score of a candidate as the specification defines it.
FinalScore(u) ==
    MaxOf({ (100 - 5 * idx) + BoostOf(u, RULES.boosts) + ImpliedBonus(u, resp.out.implied) :
            idx \in {i \in PassesOk : u \in Returned(i)} })

Distinct(xs) == \A i, j \in DOMAIN xs : i # j => xs[i] # xs[j]

\* C1: a search returns at most 5 results with distinct urls in non-increasing
\* order of final score (best pass discount + boost weights + 0.5 per implied
\* section), and no candidate left out of the chosen 5 scores strictly higher
\* than a chosen one.
C1_RankedByFinalScore ==
    SearchedOk =>
        /\ Len(resp.out.results) <= 5
        /\ Distinct(resp.out.results)
        /\ \A i, j \in DOMAIN resp.out.results :
              i < j => FinalScore(resp.out.results[i]) >= FinalScore(resp.out.results[j])
        /\ \A c \in Candidates \ Range(resp.out.top_urls) :
              \A i \in DOMAIN resp.out.top_urls :
                  FinalScore(c) <= FinalScore(resp.out.top_urls[i])

\* The host a url points to: what stands between "://" and the next "/", "?"
\* or "#".
RECURSIVE AfterScheme(_)
AfterScheme(u) ==
    IF Len(u) < 3 THEN <<>>
    ELSE IF SubSeq(u, 1, 3) = <<":", "/", "/">> THEN SubSeq(u, 4, Len(u))
    ELSE AfterScheme(Tail(u))

RECURSIVE UpToPath(_)
UpToPath(u) ==
    IF u = <<>> \/ u[1] \in {"/", "?", "#"} THEN <<>>
    ELSE <<u[1]>> \o UpToPath(Tail(u))

HostOf(u) == UpToPath(AfterScheme(u))

\* C3: a url given to /fetchByUrl is fetched when its host is
\* library.municode.com and is otherwise rejected with 400 and not fetched;
\* every url a search fetches is on that host.
C3_OnlyMunicodeHost ==
    /\ (req.path = "/fetchByUrl" /\ resp.handler = "fetch_by_url") =>
          IF HostOf(req.arg.url) = MUNICODE
          THEN resp.out.fetched = <<req.arg.url>>
          ELSE /\ resp.status = 400
               /\ resp.detail = "Only Municode URLs are supported."
               /\ resp.out.fetched = <<>>
    /\ SearchedOk => \A i \in DOMAIN resp.out.fetched : HostOf(resp.out.fetched[i]) = MUNICODE

\* The last request was a well-formed search that the middleware let pass.
SearchServed ==
    /\ req.path = "/searchOrdinance"
    /\ Len(req.arg.q) >= 2
    /\ ~OverLimit
    /\ _require_api_key(req.key)

\* C9: whatever search passes and page fetches fail, a search completes with
\* the original q; the candidates are the urls of the passes that did not
\* fail, each pass discounted by its own index; the pages fetched are the
\* chosen top 5 and the results are those of them whose fetch succeeded, in
\* rank order.
C9_CatchAndSkip ==
    SearchServed =>
        /\ SearchedOk
        /\ resp.status = 200
        /\ resp.out.query = req.arg.q
        /\ Range(Keys(resp.out.scored)) = Candidates
        /\ \A i \in DOMAIN resp.out.scored :
              \/ resp.out.scored[i].v = FinalScore(resp.out.scored[i].k)
              \/ FinalScore(resp.out.scored[i].k) < 0 /\ resp.out.scored[i].v = 0
        /\ Len(resp.out.top_urls) <= top_k
        /\ resp.out.fetched = resp.out.top_urls
        /\ resp.out.results =
              SelectSeq(resp.out.top_urls, LAMBDA u : u \notin req.arg.failing)

\* A search with a failed pass, a later pass that counted, and a failed fetch
\* among five chosen urls while more candidates stood behind them.
C9_Witness ==
    /\ SearchedOk
    /\ \E idx \in 0..(Len(resp.out.queries) - 1) :
          /\ ~WebAt(req.arg.web, idx).ok
          /\ \E later \in PassesOk : later > idx /\ Returned(later) # {}
    /\ Len(resp.out.top_urls) = top_k
    /\ Len(resp.out.scored) > top_k
    /\ resp.out.results # <<>>
    /\ Len(resp.out.results) < Len(resp.out.top_urls)

(***************************************************************************)
(* SpecGuard: the guard middleware before every route                      *)
(***************************************************************************)

s_led_lights == <<"l","e","d"," ","l","i","g","h","t","s">>

s_LED_lights == <<" ","L","E","D"," ","l","i","g","h","t","s"," ">>

Feedback(query, rating, comment, urls) ==
    [ answer_id |-> <<"a","1">>, query |-> query, rating |-> rating,
      comment |-> comment, suggested_urls |-> urls ]

F_low_padded ==
    Feedback(s_LED_lights, 2,
             <<"s","e","e"," ","S","e","c","."," ","4","0","6",","," ","w","r","o","n","g"," ","z","o","n","e">>,
             <<UrlS515>>)

F_low == Feedback(s_led_lights, 3, <<"§"," ","4","0","6"," ","a","p","p","l","i","e","s">>, <<>>)

F_high == Feedback(s_bar, 5, <<"S","e","c","."," ","5","1","5">>, <<UrlS406>>)

F_invalid == Feedback(s_bar, 6, <<>>, <<>>)

\* One well-formed argument for each route.
ArgOf(path) ==
    IF path = "/fetchByUrl" THEN [url |-> UrlS515, fetch_ok |-> TRUE]
    ELSE IF path = "/searchOrdinance" THEN [q |-> s_bar, web |-> WebSections, failing |-> {}]
    ELSE IF path = "/feedback" THEN F_low
    ELSE IF path = "/admin/approve" THEN B_boost_list
    ELSE <<>>

ProtectedPaths ==
    {"/fetchByUrl", "/searchOrdinance", "/feedback", "/admin", "/rules",
     "/admin/suggestions", "/admin/approve"}

GuardRequests ==
    { Request(path, Client, key, "t1", ArgOf(path)) :
        path \in ExemptPaths \cup ProtectedPaths, key \in {None, "", "k1", "k2"} }

InitGuard == Started({"", "k1"}, {"t1"}, {FileAbsent}, Slack, {<<>>})

NextGuard ==
    \E r \in GuardRequests :
        \/ Health(r)
        \/ FetchByUrl(r)
        \/ SearchOrdinance(r)
        \/ ReceiveFeedback(r)
        \/ AdminRead(r)
        \/ AdminSuggestions(r)
        \/ AdminApprove(r)

SpecGuard == InitGuard /\ [][NextGuard]_vars

\* Nothing that is persisted or kept in memory changed in the last request.
StateKept ==
    /\ RULES = prev.RULES
    /\ rulesFile = prev.rulesFile
    /\ feedbackLog = prev.feedbackLog
    /\ suggestionsFile = prev.suggestionsFile

\* The last request went to a protected path without the configured key.
KeyMissing ==
    /\ API_KEY # ""
    /\ req.path \in ProtectedPaths
    /\ req.key # API_KEY

\* Requests to /health, /healthz and /privacy reach their handler and leave the
\* rate limiter alone.
C5_ExemptPass ==
    req.path \in ExemptPaths =>
        /\ resp.status = 200
        /\ resp.handler = req.path
        /\ _calls = prev._calls
        /\ admitted = prev.admitted

\* C5 as stated: with API_KEY configured a request to a protected path whose
\* x-api-key differs from API_KEY does not reach its handler and is answered
\* 401 'unauthorized'; the exempt paths always reach their handler, uncounted.
C5_AsStated ==
    /\ KeyMissing =>
          /\ resp.handler = "none"
          /\ StateKept
          /\ resp.status = 401
          /\ resp.detail = "unauthorized"
    /\ C5_ExemptPass

\* C5, amended: such a request does not reach its handler; it is answered 429
\* 'rate_limit_exceeded' when the window of its address is full and 401
\* 'unauthorized' otherwise; the exempt paths always reach their handler,
\* uncounted.
C5_KeyRequired ==
    /\ KeyMissing =>
          /\ resp.handler = "none"
          /\ StateKept
          /\ resp.status = IF OverLimit THEN 429 ELSE 401
          /\ resp.detail = IF OverLimit THEN "rate_limit_exceeded" ELSE "unauthorized"
    /\ C5_ExemptPass

\* An approve without the header was turned away with 401 while the window
\* had room.
C5_Witness ==
    /\ KeyMissing
    /\ req.path = "/admin/approve"
    /\ req.key = None
    /\ ~OverLimit
    /\ resp.status = 401

(***************************************************************************)
(* SpecRate: the rate limiter over time, two addresses                     *)
(***************************************************************************)

MaxAdmits == 4

MaxNow == 62

RateRequests ==
    { Request(path, ip, None, "t1", <<>>) : path \in {"/rules", "/health"}, ip \in IPs }

\* The requests admitted since the start.
Admissions ==
    Len(admitted["10.0.0.1"]) + Len(admitted["10.0.0.2"]) - 2 * (RATE_LIMIT - Slack)

InitRate == Started({""}, {"t1"}, {FileAbsent}, Slack, {<<>>})

NextRate ==
    \/ \E r \in RateRequests : Admissions < MaxAdmits /\ Health(r)
    \/ \E r \in RateRequests : Admissions < MaxAdmits /\ AdminRead(r)
    \/ \E d \in {30, 31} : now + d <= MaxNow /\ Tick(d)

SpecRate == InitRate /\ [][NextRate]_vars

\* The requests of an address admitted in the _window seconds up to time t.
InWindow(times, t) == SelectSeq(times, LAMBDA x : t - x <= _window)

\* C4: for each address at most RATE_LIMIT requests are admitted within any
\* window of _window seconds; a request that finds the window full is answered
\* 429 and is not recorded, any other is admitted and recorded; and a request
\* leaves the windows of the other addresses as they were.
C4_SlidingWindow ==
    /\ \A ip \in IPs : \A i \in DOMAIN admitted[ip] :
          Cardinality({ j \in DOMAIN admitted[ip] :
                          /\ admitted[ip][i] <= admitted[ip][j]
                          /\ admitted[ip][j] <= admitted[ip][i] + _window }) <= RATE_LIMIT
    /\ req.path \in ProtectedPaths =>
          /\ IF Len(InWindow(prev.admitted[req.ip], prev.now)) >= RATE_LIMIT
             THEN /\ resp.status = 429
                  /\ admitted[req.ip] = prev.admitted[req.ip]
             ELSE /\ resp.status # 429
                  /\ admitted[req.ip] = Append(prev.admitted[req.ip], prev.now)
          /\ _calls[req.ip] = InWindow(admitted[req.ip], prev.now)
          /\ \A ip \in IPs \ {req.ip} :
                /\ _calls[ip] = prev._calls[ip]
                /\ admitted[ip] = prev.admitted[ip]

\* A request was admitted because the requests that filled the window of its
\* address had grown old, after the other address had sent requests too.
C4_Witness ==
    /\ req.path = "/rules"
    /\ resp.status = 200
    /\ Len(prev._calls[req.ip]) = RATE_LIMIT
    /\ Len(admitted[req.ip]) > RATE_LIMIT
    /\ \E ip \in IPs \ {req.ip} : Len(admitted[ip]) > RATE_LIMIT - Slack

(***************************************************************************)
(* SpecIdem: feedback, suggestions and repeated requests                   *)
(***************************************************************************)

MaxClock == 1

\* A row of a feedback log written before rows carried a rating.
RowLegacy ==
    [ answer_id |-> <<"a","0">>, query |-> s_bar, rating |-> <<>>,
      comment |-> <<"S","e","c","."," ","5","1","5">>, suggested_urls |-> <<>>, ts |-> 0 ]

RowHigh ==
    [ answer_id |-> <<"a","0">>, query |-> s_bar, rating |-> <<4>>,
      comment |-> <<>>, suggested_urls |-> <<UrlS406>>, ts |-> 0 ]

IdemRequests ==
    { Request("/feedback", Client, None, None, f) :
        f \in {F_low_padded, F_low, F_high, F_invalid} }
    \cup { Request("/admin/suggestions", Client, None, t, <<>>) : t \in {None, "t1"} }
    \cup { Request("/admin/approve", Client, None, "t1", b) :
             b \in {B_te_led, B_map_bar, B_boost_list} }
    \cup { Request("/searchOrdinance", Client, None, None,
                   [q |-> s_led_lights, web |-> WebFull, failing |-> {UrlA}]) }
    \cup { Request("/fetchByUrl", Client, None, None, [url |-> UrlS515, fetch_ok |-> TRUE]) }

InitIdem == Started({""}, {"t1"}, {FileAbsent}, Slack, {<<>>, <<RowLegacy, RowHigh>>})

NextIdem ==
    \/ \E r \in IdemRequests :
          \/ ReceiveFeedback(r)
          \/ AdminSuggestions(r)
          \/ AdminApprove(r)
          \/ SearchOrdinance(r)
          \/ FetchByUrl(r)
    \/ now < MaxClock /\ Tick(1)

SpecIdem == InitIdem /\ [][NextIdem]_vars

\* The last request was GET /admin/suggestions and was answered with proposals.
SuggestionsBuilt ==
    /\ req.path = "/admin/suggestions"
    /\ resp.handler = "admin_suggestions"
    /\ resp.status = 200

\* The rows with a rating of 3 or less.
LowRows ==
    {i \in DOMAIN feedbackLog :
        feedbackLog[i].rating # <<>> /\ feedbackLog[i].rating[1] <= 3}

\* What the specification claims of the proposals, for a given reading KeyOf of
\* "the row's query": only low-rated rows contribute; every section a low-rated
\* row references is a mapping of its query; a boost is 0.2 per low-rated row
\* that references the section; the boosted sections are the mapped ones; all
\* rows are counted.
DerivedFromLowRows(KeyOf(_)) ==
    LET out == resp.out
        rows == feedbackLog
    IN  /\ \A k \in DOMAIN out.mappings : \A s \in Range(out.mappings[k]) :
              \E i \in LowRows : KeyOf(rows[i]) = k /\ s \in RowSecs(rows[i])
        /\ \A k \in DOMAIN out.term_expansions : \A t \in Range(out.term_expansions[k]) :
              \E i \in LowRows : KeyOf(rows[i]) = k /\ t \in CommentTokens(rows[i].comment)
        /\ \A i \in LowRows : \A s \in RowSecs(rows[i]) :
              /\ KeyOf(rows[i]) \in DOMAIN out.mappings
              /\ s \in Range(out.mappings[KeyOf(rows[i])])
        /\ \A s \in DOMAIN out.boosts :
              out.boosts[s] = 20 * Cardinality({i \in LowRows : s \in RowSecs(rows[i])})
        /\ DOMAIN out.boosts = UNION {Range(out.mappings[k]) : k \in DOMAIN out.mappings}
        /\ out.count_source_rows = Len(rows)

LoweredQuery(row) == Lower(row.query)

StrippedQuery(row) == Strip(Lower(row.query))

SameSuggestions(a, b) == [a EXCEPT !.generated_at = 0] = [b EXCEPT !.generated_at = 0]

\* This step serves a request (the clock stands still meanwhile) that repeats
\* the request before it, which had reached its handler.
RepeatsRequest ==
    /\ now' = now
    /\ req'.path = req.path
    /\ req' = req
    /\ resp.handler # "none"

\* The repeated request left the rules and the suggestions file as they were,
\* and got the answer the first one got.
RepeatKeeps ==
    /\ RULES' = RULES
    /\ rulesFile' = rulesFile
    /\ SameSuggestions(suggestionsFile', suggestionsFile)
    /\ resp'.handler # "none" =>
          IF resp.handler = "admin_suggestions" /\ resp.status = 200
          THEN resp'.status = 200 /\ SameSuggestions(resp'.out, resp.out)
          ELSE resp' = resp

\* C6 as stated: a request issued twice in succession leaves the rules file,
\* RULES, the feedback log and the suggestions as issuing it once does, and
\* gets the same ranking or proposals; feedback posted twice yields the
\* suggestions of feedback posted once.
C6_AsStated ==
    [][ RepeatsRequest =>
          /\ RepeatKeeps
          /\ feedbackLog' = feedbackLog
          /\ SameSuggestions(build_suggestions(feedbackLog'), build_suggestions(feedbackLog))
      ]_vars

\* C6, amended: that holds of every operation but the recording of feedback,
\* the time of generation of the proposals apart; a feedback posted again is
\* recorded again, as one more row of the log.
C6_IdempotentButFeedback ==
    [][ RepeatsRequest =>
          /\ RepeatKeeps
          /\ IF req.path = "/feedback" /\ resp'.handler # "none"
             THEN /\ Len(feedbackLog') = Len(feedbackLog) + 1
                  /\ SubSeq(feedbackLog', 1, Len(feedbackLog)) = feedbackLog
                  /\ build_suggestions(feedbackLog').count_source_rows
                        = build_suggestions(feedbackLog).count_source_rows + 1
             ELSE feedbackLog' = feedbackLog
      ]_vars

\* An approve that was accepted found its entry in the rules already, put
\* there by the same approve before it, and changed nothing.
C6_Witness ==
    /\ ApprovedOk
    /\ req.arg = B_boost_list
    /\ DictGet(prev.RULES.boosts, S515, 0) = 30
    /\ ~RulesChanged

====
